---- MODULE Spec2Model ----
(***************************************************************************)
(* Model of bookbot: stats.py (text statistics and the book loader) and    *)
(* main.py (the command-line entry point).                                 *)
(*                                                                         *)
(* A text is a sequence of characters.  A printable ASCII character other  *)
(* than the grave accent, and each of tab, newline, carriage return and    *)
(* form feed, is the string holding it; any other code point is written    *)
(* "U+XXXX" (the grave accent "U+0060").  The character                    *)
(* classes below are Python's on the printable ASCII characters and on the *)
(* code points they name; other code points are outside the model.         *)
(* A float n/d is the record [num |-> n, den |-> d], standing for the      *)
(* double nearest to n/d; a value rounded to two decimals is its integer   *)
(* number of hundredths.                                                   *)
(* A call's outcome is [kind |-> "return", value |-> v] or                 *)
(* [kind |-> "raise", exc |-> class, msg |-> message].                     *)
(***************************************************************************)
EXTENDS Integers, Sequences, FiniteSets, TLC

VARIABLES text, op, arg, result

vars == <<text, op, arg, result>>

\* ------------------------------------------------------------------ bounds
MaxLen == 3
MaxTopN == 3
MaxArgs == 2

\* ------------------------------------------------- characters (Python str)
LowerAlpha == <<"a","b","c","d","e","f","g","h","i","j","k","l","m",
                "n","o","p","q","r","s","t","u","v","w","x","y","z">>
UpperAlpha == <<"A","B","C","D","E","F","G","H","I","J","K","L","M",
                "N","O","P","Q","R","S","T","U","V","W","X","Y","Z">>
AsciiDigits == {"0","1","2","3","4","5","6","7","8","9"}

\* cased letters outside ASCII with a one-character lowercase, and that lowercase:
\* E acute, Alpha, Sigma, capital sharp s
UpperOther == <<"U+00C9", "U+0391", "U+03A3", "U+1E9E">>
LowerOther == <<"U+00E9", "U+03B1", "U+03C3", "U+00DF">>

Range(s) == {s[i] : i \in DOMAIN s}

\* the digits \w keeps: ASCII, ARABIC-INDIC DIGIT THREE, SUPERSCRIPT TWO, ONE HALF
Digits == AsciiDigits \cup {"U+0663", "U+00B2", "U+00BD"}

\* the letters: the cased ones above, I with dot above, final sigma, and the
\* uncased CJK ideograph U+4E2D
CasedLetters ==
    Range(LowerAlpha) \cup Range(UpperAlpha) \cup Range(UpperOther)
        \cup Range(LowerOther) \cup {"U+0130", "U+03C2"}

Letters == CasedLetters \cup {"U+4E2D"}

\* str.isalnum() of one character
IsAlnum(c) == c \in Letters \cup Digits

\* the class \w of the re module on str patterns: alphanumerics and underscore
IsWordChar(c) == IsAlnum(c) \/ c = "_"

\* the characters str.split() and str.strip() treat as whitespace (str.isspace)
Whitespace ==
    {" ", "\t", "\n", "\r", "\f", "U+000B", "U+001C", "U+001D", "U+001E", "U+001F",
     "U+0085", "U+00A0", "U+1680", "U+2000", "U+2001", "U+2002", "U+2003", "U+2004",
     "U+2005", "U+2006", "U+2007", "U+2008", "U+2009", "U+200A", "U+2028", "U+2029",
     "U+202F", "U+205F", "U+3000"}

IsSpace(c) == c \in Whitespace

\* the class [.!?]
IsTerminator(c) == c \in {".", "!", "?"}

\* the Unicode properties Cased and Case_Ignorable, which str.lower() consults
\* around a capital sigma
IsCased(c) == c \in CasedLetters

IsCaseIgnorable(c) ==
    c \in {"'", ".", ":", "^", "U+0060", "U+0307", "U+00AD", "U+00B7", "U+2019"}

\* str.lower() of one character (U+0130 lowers to two code points)
LowerChar(c) ==
    IF c \in Range(UpperAlpha)
    THEN <<LowerAlpha[CHOOSE i \in DOMAIN UpperAlpha : UpperAlpha[i] = c]>>
    ELSE IF c \in Range(UpperOther)
    THEN <<LowerOther[CHOOSE i \in DOMAIN UpperOther : UpperOther[i] = c]>>
    ELSE IF c = "U+0130" THEN <<"i", "U+0307">> ELSE <<c>>

\* a capital sigma at i is final: the nearest character before it that is not
\* case-ignorable is cased, and the nearest such character after it is not
FinalSigma(s, i) ==
    LET before == {j \in 1..(i - 1) : ~IsCaseIgnorable(s[j])}
        after == {j \in (i + 1)..Len(s) : ~IsCaseIgnorable(s[j])}
    IN  /\ before # {}
        /\ IsCased(s[CHOOSE j \in before : \A k \in before : k <= j])
        /\ \/ after = {}
           \/ ~IsCased(s[CHOOSE j \in after : \A k \in after : j <= k])

RECURSIVE LowerFrom(_, _)
LowerFrom(s, i) ==
    IF i > Len(s) THEN <<>>
    ELSE (IF s[i] = "U+03A3" /\ FinalSigma(s, i) THEN <<"U+03C2">> ELSE LowerChar(s[i]))
         \o LowerFrom(s, i + 1)

\* str.lower()
str_lower(s) == LowerFrom(s, 1)

\* str.split(): maximal runs of non-whitespace, no empty strings
RECURSIVE SplitScan(_, _, _)
SplitScan(s, i, cur) ==
    IF i > Len(s) THEN (IF cur = <<>> THEN <<>> ELSE <<cur>>)
    ELSE IF IsSpace(s[i])
         THEN (IF cur = <<>> THEN <<>> ELSE <<cur>>) \o SplitScan(s, i + 1, <<>>)
         ELSE SplitScan(s, i + 1, Append(cur, s[i]))

str_split(s) == SplitScan(s, 1, <<>>)

\* str.strip(): leading and trailing whitespace removed
RECURSIVE LStrip(_)
LStrip(s) == IF s # <<>> /\ IsSpace(Head(s)) THEN LStrip(Tail(s)) ELSE s

RECURSIVE RStrip(_)
RStrip(s) ==
    IF s # <<>> /\ IsSpace(s[Len(s)]) THEN RStrip(SubSeq(s, 1, Len(s) - 1)) ELSE s

str_strip(s) == RStrip(LStrip(s))

\* re.split(r'[.!?]+', s): the pieces between maximal runs of terminators,
\* empty pieces included
RECURSIVE SkipTerminators(_, _)
SkipTerminators(s, i) ==
    IF i <= Len(s) /\ IsTerminator(s[i]) THEN SkipTerminators(s, i + 1) ELSE i

RECURSIVE ReSplitScan(_, _, _)
ReSplitScan(s, i, cur) ==
    IF i > Len(s) THEN <<cur>>
    ELSE IF IsTerminator(s[i])
         THEN <<cur>> \o ReSplitScan(s, SkipTerminators(s, i), <<>>)
         ELSE ReSplitScan(s, i + 1, Append(cur, s[i]))

re_split_terminators(s) == ReSplitScan(s, 1, <<>>)

\* s.split('\n\n'): the pieces between non-overlapping blank-line separators
RECURSIVE ParaSplitScan(_, _, _)
ParaSplitScan(s, i, cur) ==
    IF i > Len(s) THEN <<cur>>
    ELSE IF i + 1 <= Len(s) /\ s[i] = "\n" /\ s[i + 1] = "\n"
         THEN <<cur>> \o ParaSplitScan(s, i + 2, <<>>)
         ELSE ParaSplitScan(s, i + 1, Append(cur, s[i]))

split_blank_lines(s) == ParaSplitScan(s, 1, <<>>)

\* re.sub(r'[^\w]', '', word)
re_sub_nonword(word) == SelectSeq(word, IsWordChar)

\* [x.strip() for x in pieces if x.strip()]
RECURSIVE StripNonEmpty(_)
StripNonEmpty(pieces) ==
    IF pieces = <<>> THEN <<>>
    ELSE (IF str_strip(Head(pieces)) # <<>> THEN <<str_strip(Head(pieces))>> ELSE <<>>)
         \o StripNonEmpty(Tail(pieces))

\* ------------------------------------------------------- stats.py functions
get_num_words(t) ==
    IF t = <<>> THEN 0 ELSE Len(str_split(t))

get_num_characters(t) == Len(t)

\* variant: [s for s in sentences if s], whitespace-only pieces kept
RECURSIVE DropEmpty(_)
DropEmpty(pieces) ==
    IF pieces = <<>> THEN <<>>
    ELSE (IF Head(pieces) # <<>> THEN <<Head(pieces)>> ELSE <<>>) \o DropEmpty(Tail(pieces))

SentencesUnstripped(t) ==
    IF t = <<>> THEN 0 ELSE Len(DropEmpty(re_split_terminators(t)))

get_num_sentences(t) ==
    IF t = <<>> THEN 0 ELSE Len(StripNonEmpty(re_split_terminators(t)))

\* variant: no guard for the empty text and no filter of empty pieces
ParagraphsUnfiltered(t) == Len(split_blank_lines(t))

get_num_paragraphs(t) ==
    IF t = <<>> THEN 0 ELSE Len(StripNonEmpty(split_blank_lines(t)))

\* the loop of get_word_frequency / get_average_word_length over the words:
\* each word cleaned, the empty results dropped
RECURSIVE CleanWords(_)
CleanWords(words) ==
    IF words = <<>> THEN <<>>
    ELSE (IF re_sub_nonword(Head(words)) # <<>>
          THEN <<re_sub_nonword(Head(words))>> ELSE <<>>)
         \o CleanWords(Tail(words))

\* a dict is the sequence of its <<key, count>> items in insertion order
Increment(d, key) ==
    IF \E k \in DOMAIN d : d[k][1] = key
    THEN [k \in DOMAIN d |-> IF d[k][1] = key THEN <<key, d[k][2] + 1>> ELSE d[k]]
    ELSE Append(d, <<key, 1>>)

RECURSIVE CountInto(_, _)
CountInto(d, keys) ==
    IF keys = <<>> THEN d ELSE CountInto(Increment(d, Head(keys)), Tail(keys))

\* collections.Counter(words)
Counter(words) == CountInto(<<>>, words)

\* variant: an unstable order, a later item overtaking earlier ones of equal count
RECURSIVE InsertByCountUnstable(_, _)
InsertByCountUnstable(sorted, item) ==
    IF sorted = <<>> THEN <<item>>
    ELSE IF Head(sorted)[2] > item[2]
         THEN <<Head(sorted)>> \o InsertByCountUnstable(Tail(sorted), item)
         ELSE <<item>> \o sorted

\* sorted(items, key=count, reverse=True): stable, so equal counts keep their order
RECURSIVE InsertByCount(_, _)
InsertByCount(sorted, item) ==
    IF sorted = <<>> THEN <<item>>
    ELSE IF Head(sorted)[2] >= item[2]
         THEN <<Head(sorted)>> \o InsertByCount(Tail(sorted), item)
         ELSE <<item>> \o sorted

RECURSIVE SortByCountDesc(_)
SortByCountDesc(items) ==
    IF items = <<>> THEN <<>>
    ELSE InsertByCount(SortByCountDesc(SubSeq(items, 1, Len(items) - 1)),
                       items[Len(items)])

Take(s, n) == IF n <= 0 THEN <<>> ELSE SubSeq(s, 1, IF n < Len(s) THEN n ELSE Len(s))

\* Counter.most_common(n)
most_common(d, n) == Take(SortByCountDesc(d), n)

get_word_frequency(t, top_n) ==
    IF t = <<>> THEN <<>>
    ELSE most_common(Counter(CleanWords(str_split(str_lower(t)))), top_n)

RECURSIVE SumLen(_)
SumLen(words) == IF words = <<>> THEN 0 ELSE Len(Head(words)) + SumLen(Tail(words))

Zero == [num |-> 0, den |-> 1]

get_average_word_length(t) ==
    IF t = <<>> THEN Zero
    ELSE IF str_split(t) = <<>> THEN Zero
    ELSE LET word_lengths == CleanWords(str_split(t))
         IN  IF word_lengths = <<>> THEN Zero
             ELSE [num |-> SumLen(word_lengths), den |-> Len(word_lengths)]

\* variant: the text counted without lowercasing
CharFrequencyNoLower(t) ==
    IF t = <<>> THEN <<>> ELSE CountInto(<<>>, t)

get_character_frequency(t) ==
    IF t = <<>> THEN <<>> ELSE CountInto(<<>>, str_lower(t))

\* variant: rounding up to the next hundredth
Round2Up(x) == (x.num * 100 + x.den - 1) \div x.den

\* the number of binary digits of n
RECURSIVE BitLength(_)
BitLength(n) == IF n = 0 THEN 0 ELSE 1 + BitLength(n \div 2)

\* 2^p modulo m, by repeated squaring
RECURSIVE PowMod2(_, _)
PowMod2(p, m) ==
    IF p = 0 THEN 1 % m
    ELSE LET h == PowMod2(p \div 2, m)
         IN  (h * h * (IF p % 2 = 1 THEN 2 ELSE 1)) % m

\* what long division of rem/den leaves after p binary digits
RemAfter(rem, den, p) == (rem * PowMod2(p, den)) % den

\* the zero binary digits that open the expansion of rem/den, 0 < rem < den
RECURSIVE LeadingZeros(_, _)
LeadingZeros(rem, den) ==
    IF 2 * rem >= den THEN 0 ELSE 1 + LeadingZeros(2 * rem, den)

\* num / den as a double, den > 0 and num >= 0: -1, 0 or 1 as the double is
\* below, equal to or above the exact quotient.  The quotient is cut after the
\* 53 binary digits of a significand and rounded to nearest, ties to even.
DoubleError(num, den) ==
    IF num % den = 0 THEN 0
    ELSE LET whole == num \div den
             rem == num % den
             p == IF whole > 0 THEN 53 - BitLength(whole)
                  ELSE LeadingZeros(rem, den) + 53
             left == RemAfter(rem, den, p)
             last == IF p = 0 THEN whole % 2
                     ELSE IF 2 * RemAfter(rem, den, p - 1) >= den THEN 1 ELSE 0
         IN  IF left = 0 THEN 0
             ELSE IF 2 * left < den THEN -1
             ELSE IF 2 * left > den THEN 1
             ELSE IF last = 0 THEN -1 ELSE 1

\* round(x, 2) as a number of hundredths: the double x rounded to the nearest
\* hundredth; a quotient exactly halfway goes the way the double fell, and to
\* the even hundredth when the double is the quotient itself
Round2(x) ==
    LET q == (x.num * 100) \div x.den
        r == (x.num * 100) % x.den
        e == DoubleError(x.num, x.den)
    IN  IF 2 * r < x.den THEN q
        ELSE IF 2 * r > x.den THEN q + 1
        ELSE IF e < 0 THEN q
        ELSE IF e > 0 THEN q + 1
        ELSE IF q % 2 = 0 THEN q ELSE q + 1

generate_text_report(t) ==
    [characters |-> get_num_characters(t),
     words |-> get_num_words(t),
     sentences |-> get_num_sentences(t),
     paragraphs |-> get_num_paragraphs(t),
     average_word_length |-> Round2(get_average_word_length(t)),
     top_words |-> get_word_frequency(t, 5)]

\* ------------------------------------------------------------ the loader
\* The file system a run sees: one regular UTF-8 file holding `content`, a
\* path that does not exist, a directory, a file the user may not read, a
\* file whose bytes are not valid UTF-8, and a path through a regular file.
Paths == {"book.txt", "missing.txt", "books", "secret.txt", "latin1.txt", "book.txt/x"}

FileSystem(content) ==
    [p \in Paths |->
        CASE p = "book.txt"    -> [kind |-> "regular", content |-> content]
          [] p = "missing.txt" -> [kind |-> "missing"]
          [] p = "books"       -> [kind |-> "directory"]
          [] p = "secret.txt"  -> [kind |-> "denied"]
          [] p = "latin1.txt"  -> [kind |-> "not_utf8"]
          [] p = "book.txt/x"  -> [kind |-> "not_a_directory"]]

Return(v) == [kind |-> "return", value |-> v]
Raise(exc, msg) == [kind |-> "raise", exc |-> exc, msg |-> msg]

\* text mode with the default newline=None: "\r\n" and a lone "\r" are read as "\n"
RECURSIVE UniversalNewlines(_, _)
UniversalNewlines(s, i) ==
    IF i > Len(s) THEN <<>>
    ELSE IF s[i] = "\r"
         THEN <<"\n">> \o UniversalNewlines(s, IF i < Len(s) /\ s[i + 1] = "\n"
                                                THEN i + 2 ELSE i + 1)
         ELSE <<s[i]>> \o UniversalNewlines(s, i + 1)

\* open(file_path, 'r', encoding='utf-8') followed by file.read()
OpenAndRead(fs, file_path) ==
    CASE fs[file_path].kind = "regular"   ->
            Return(UniversalNewlines(fs[file_path].content, 1))
      [] fs[file_path].kind = "missing"   ->
            Raise("FileNotFoundError", <<"[Errno 2] No such file or directory: ", file_path>>)
      [] fs[file_path].kind = "directory" ->
            Raise("IsADirectoryError", <<"[Errno 21] Is a directory: ", file_path>>)
      [] fs[file_path].kind = "denied"    ->
            Raise("PermissionError", <<"[Errno 13] Permission denied: ", file_path>>)
      [] fs[file_path].kind = "not_utf8"  ->
            Raise("UnicodeDecodeError", <<"'utf-8' codec can't decode byte">>)
      [] fs[file_path].kind = "not_a_directory" ->
            Raise("NotADirectoryError", <<"[Errno 20] Not a directory: ", file_path>>)

\* the built-in exception classes `except IOError` catches: IOError is OSError,
\* and these are its subclasses
OSErrorClasses ==
    {"OSError", "IOError", "EnvironmentError", "BlockingIOError", "ChildProcessError",
     "ConnectionError", "BrokenPipeError", "ConnectionAbortedError",
     "ConnectionRefusedError", "ConnectionResetError", "FileExistsError",
     "FileNotFoundError", "InterruptedError", "IsADirectoryError",
     "NotADirectoryError", "PermissionError", "ProcessLookupError", "TimeoutError"}

\* stats.get_book_text
get_book_text(fs, file_path) ==
    LET r == OpenAndRead(fs, file_path)
    IN  IF r.kind = "return" THEN r
        ELSE IF r.exc = "FileNotFoundError"
             THEN Raise("FileNotFoundError", <<"Book file not found: ", file_path>>)
        ELSE IF r.exc \in OSErrorClasses
             THEN Raise("OSError", <<"Error reading book file: ", r.msg>>)
        ELSE r

\* main.get_book_text, the same text as the one in stats.py
main_get_book_text(fs, file_path) ==
    LET r == OpenAndRead(fs, file_path)
    IN  IF r.kind = "return" THEN r
        ELSE IF r.exc = "FileNotFoundError"
             THEN Raise("FileNotFoundError", <<"Book file not found: ", file_path>>)
        ELSE IF r.exc \in OSErrorClasses
             THEN Raise("OSError", <<"Error reading book file: ", r.msg>>)
        ELSE r

\* ------------------------------------------------------------ the program
\* the names of the stats module's namespace, which `from stats import X` can
\* find: the names the import system sets, the two names stats.py imports, and
\* the functions it defines
StatsNames ==
    {"__builtins__", "__cached__", "__doc__", "__file__", "__loader__", "__name__",
     "__package__", "__spec__",
     "re", "Counter",
     "get_book_text", "get_num_words", "get_num_characters", "get_num_sentences",
     "get_num_paragraphs", "get_word_frequency", "get_average_word_length",
     "get_character_frequency", "generate_text_report"}

\* from stats import ...
ImportedNames == {"get_num_words", "get_character_frequency", "sort_character_frequency"}

\* what a finished process leaves: the lines on standard output, the exception
\* whose traceback went to standard error ("" when none), the exit status and
\* the paths it tried to open
Exit(stdout, uncaught, status, opened) ==
    [stdout |-> stdout, uncaught |-> uncaught, status |-> status, opened |-> opened]

\* stats.py has no sort_character_frequency: the helper main.py asks for is
\* described only by the specification (descending count, stable)
RECURSIVE CharRecords(_)
CharRecords(items) ==
    IF items = <<>> THEN <<>>
    ELSE <<[char |-> Head(items)[1], num |-> Head(items)[2]]>> \o CharRecords(Tail(items))

sort_character_frequency(char_frequency) == CharRecords(SortByCountDesc(char_frequency))

RECURSIVE CharLines(_)
CharLines(sorted_chars) ==
    IF sorted_chars = <<>> THEN <<>>
    ELSE <<<<Head(sorted_chars).char, ": ", Head(sorted_chars).num>>>>
         \o CharLines(Tail(sorted_chars))

UsageLine == <<"Usage: python3 main.py <path_to_book>">>

\* main(), given sys.argv
main(fs, argv) ==
    IF Len(argv) # 2
    THEN Exit(<<UsageLine>>, "", 1, <<>>)
    ELSE LET book_path == argv[2]
             loaded == main_get_book_text(fs, book_path)
         IN  IF loaded.kind = "return"
             THEN LET word_count == get_num_words(loaded.value)
                      char_frequency == get_character_frequency(loaded.value)
                      sorted_chars == sort_character_frequency(char_frequency)
                  IN  Exit(<< <<"============= BOOKBOT =============">>,
                              <<"Analyzing book found at ", book_path, "...">>,
                              <<>>,
                              <<"--------- Word Count ---------">>,
                              <<"Found ", word_count, " total words">>,
                              <<"--------- Character Count -------">> >>
                           \o CharLines(sorted_chars)
                           \o << <<"=============== END ===============">> >>,
                           "", 0, <<book_path>>)
             ELSE IF loaded.exc \in OSErrorClasses
                  THEN Exit(<< <<"Error: ", loaded.msg>> >>, "", 0, <<book_path>>)
                  ELSE Exit(<<>>, loaded.exc, 1, <<book_path>>)

\* python3 main.py args...: the import statement of line 2 runs first and
\* raises ImportError when stats lacks one of the names; main() runs after it
RunMainPy(fs, argv) ==
    IF ImportedNames \subseteq StatsNames
    THEN main(fs, argv)
    ELSE Exit(<<>>, "ImportError", 1, <<>>)

\* ------------------------------------------------------------- the inputs
Alphabet == {"a", "b", "A", " ", "\n", ".", "?", "_", ","}

TheCatText == <<"t","h","e"," ","c","a","t"," ","t","h","e"," ","d","o","g"," ","t","h","e">>
CatDogBird == <<"c","a","t"," ","d","o","g"," ","b","i","r","d">>
HelloWorld == <<"H","e","l","l","o","."," ","W","o","r","l","d","!"," ",
                "H","o","w"," ","a","r","e"," ","y","o","u","?">>
ThreeParas == <<"P","1",".","\n","\n","P","2",".","\n","\n","P","3",".">>
Reordered == <<"b",","," ","a","_"," ","A","_"," ","c"," ","_"," ",";">>
DottedI == <<"U+0130","A"," ","a","\t","I">>

CrLf == <<"a",".","\r","\n","\r","\n","b","\r","c","\f","d","U+00A0","e">>
Greek == <<"U+0391","U+03A3"," ","U+03A3","U+03B1",","," ","U+00C9","U+0663","_",
           " ","U+00E9","U+0663","_"," ","U+1E9E","'","U+03A3",".","U+2014">>

RECURSIVE Repeat(_, _)
Repeat(s, n) == IF n = 0 THEN <<>> ELSE s \o Repeat(s, n - 1)

\* 8 words of average 9/8 = 1.125, an exact half of a hundredth
EightWords == Repeat(<<"a", " ">>, 7) \o <<"a", "a">>

ExampleTexts == {TheCatText, CatDogBird, HelloWorld, ThreeParas, Reordered, DottedI,
                 CrLf, Greek, EightWords}

Texts == UNION {[1..n -> Alphabet] : n \in 0..MaxLen} \cup ExampleTexts

\* sys.argv of a run with n arguments, the first of them p
Argv(n, p) == <<"main.py">> \o [i \in 1..n |-> IF i = 1 THEN p ELSE "extra"]

\* ------------------------------------------------------------ the machine
Init ==
    /\ text \in Texts
    /\ op = "none"
    /\ arg = <<>>
    /\ result = <<>>

Call(name, a, r) ==
    /\ op = "none"
    /\ op' = name
    /\ arg' = a
    /\ result' = r
    /\ UNCHANGED text

CallGetNumWords == Call("get_num_words", <<>>, get_num_words(text))

CallGetNumCharacters == Call("get_num_characters", <<>>, get_num_characters(text))

CallGetNumSentences == Call("get_num_sentences", <<>>, get_num_sentences(text))

CallGetNumParagraphs == Call("get_num_paragraphs", <<>>, get_num_paragraphs(text))

CallGetWordFrequency ==
    \E n \in 0..MaxTopN : Call("get_word_frequency", n, get_word_frequency(text, n))

CallGetAverageWordLength ==
    Call("get_average_word_length", <<>>, get_average_word_length(text))

CallGetCharacterFrequency ==
    Call("get_character_frequency", <<>>, get_character_frequency(text))

CallGenerateTextReport ==
    Call("generate_text_report", <<>>, generate_text_report(text))

CallGetBookText ==
    \E p \in Paths : Call("get_book_text", p, get_book_text(FileSystem(text), p))

RunProgram ==
    \E n \in 0..MaxArgs, p \in Paths :
        Call("main.py", Argv(n, p), RunMainPy(FileSystem(text), Argv(n, p)))

Next ==
    \/ CallGetNumWords
    \/ CallGetNumCharacters
    \/ CallGetNumSentences
    \/ CallGetNumParagraphs
    \/ CallGetWordFrequency
    \/ CallGetAverageWordLength
    \/ CallGetCharacterFrequency
    \/ CallGenerateTextReport
    \/ CallGetBookText
    \/ RunProgram

Spec == Init /\ [][Next]_vars

\* ------------------------------------------------- vocabulary of the claims
\* positions where a whitespace-delimited token of s starts
TokenStarts(s) ==
    {i \in 1..Len(s) : ~IsSpace(s[i]) /\ (i = 1 \/ IsSpace(s[i - 1]))}

\* the token of s that starts at i
TokenAt(s, i) ==
    LET last == CHOOSE j \in i..Len(s) :
                    /\ \A k \in i..j : ~IsSpace(s[k])
                    /\ (j = Len(s) \/ IsSpace(s[j + 1]))
    IN  SubSeq(s, i, last)

SumCounts(d) ==
    LET RECURSIVE Sum(_)
        Sum(k) == IF k = 0 THEN 0 ELSE d[k][2] + Sum(k - 1)
    IN  Sum(Len(d))

Occurrences(s, c) == Cardinality({i \in 1..Len(s) : s[i] = c})

FirstIndex(s, c) == CHOOSE i \in 1..Len(s) : s[i] = c /\ \A j \in 1..(i - 1) : s[j] # c

\* the cleaned words of the lowercased text, by the position of their token
WordStarts == {i \in TokenStarts(str_lower(text)) :
                  \E k \in DOMAIN TokenAt(str_lower(text), i) :
                      IsWordChar(TokenAt(str_lower(text), i)[k])}

WordOf(i) == SelectSeq(TokenAt(str_lower(text), i), IsWordChar)

DistinctWords == {WordOf(i) : i \in WordStarts}

WordCount(w) == Cardinality({i \in WordStarts : WordOf(i) = w})

WordFirst(w) == CHOOSE i \in WordStarts :
                    WordOf(i) = w /\ \A j \in WordStarts : WordOf(j) = w => i <= j

\* u ranks before v: more frequent, or as frequent and seen first
WordBefore(u, v) ==
    \/ WordCount(u) > WordCount(v)
    \/ WordCount(u) = WordCount(v) /\ WordFirst(u) < WordFirst(v)

\* ------------------------------------------------------------------ claims

\* C1: get_word_frequency(text, N), N >= 0, returns min(N, number of distinct
\* cleaned words) pairs (word, count), each count the number of occurrences of
\* the word, ordered by descending count with equal counts in order of first
\* occurrence, and no word left out ranks before a word returned;
\* get_word_frequency("the cat the dog the", 2) is [("the", 3), ("cat", 1)].
C1_WordFrequencyOrder ==
    op = "get_word_frequency" =>
        /\ Len(result) = (IF arg < Cardinality(DistinctWords)
                          THEN arg ELSE Cardinality(DistinctWords))
        /\ \A k \in DOMAIN result :
              /\ result[k][1] \in DistinctWords
              /\ result[k][2] = WordCount(result[k][1])
              /\ \A j \in 1..(k - 1) : WordBefore(result[j][1], result[k][1])
              /\ \A w \in DistinctWords :
                    (\A j \in DOMAIN result : result[j][1] # w)
                        => WordBefore(result[k][1], w)
        /\ (text = TheCatText /\ arg = 2) =>
              result = << <<(<<"t","h","e">>), 3>>, <<(<<"c","a","t">>), 1>> >>

C1_Witness ==
    /\ op = "get_word_frequency"
    /\ text = TheCatText
    /\ arg = 2
    /\ Len(result) = 2
    /\ Cardinality(DistinctWords) = 3

\* C2: a run with exactly one path argument whose file cannot be loaded (Not
\* Found or Read Error) prints exactly the line "Error: <message>" on standard
\* output, raises nothing and exits with status 0.
C2_LoadErrorReported ==
    (/\ op = "main.py"
     /\ Len(arg) = 2
     /\ FileSystem(text)[arg[2]].kind
            \in {"missing", "directory", "denied", "not_a_directory"})
    => /\ result.stdout =
              << <<"Error: ", main_get_book_text(FileSystem(text), arg[2]).msg>> >>
       /\ result.uncaught = ""
       /\ result.status = 0

\* C3: get_book_text(path) returns the full content of an existing file, or
\* signals Not Found with the path in its message when the path does not
\* resolve to an existing file, or signals Read Error with the cause in its
\* message for every other failure (directory, permission denied, bytes that
\* are not UTF-8); nothing else escapes.
C3_LoaderOutcomes ==
    op = "get_book_text" =>
        LET entry == FileSystem(text)[arg]
        IN  \/ /\ entry.kind = "regular"
               /\ result = Return(text)
            \/ /\ entry.kind \in {"missing", "not_a_directory"}
               /\ result.kind = "raise"
               /\ result.exc = "FileNotFoundError"
               /\ arg \in Range(result.msg)
            \/ /\ entry.kind \in {"directory", "denied", "not_utf8"}
               /\ result.kind = "raise"
               /\ result.exc = "OSError"
               /\ result.msg = <<"Error reading book file: ",
                                 OpenAndRead(FileSystem(text), arg).msg>>

\* C4: a run whose argument count is not exactly one prints the usage message
\* and nothing else, exits with a non-zero status and opens no file.
C4_UsageOnWrongArgCount ==
    (op = "main.py" /\ Len(arg) # 2)
    => /\ result.stdout = <<UsageLine>>
       /\ result.status # 0
       /\ result.opened = <<>>

\* C5: get_average_word_length(text) is the number of alphanumeric characters
\* of the text divided by the number of whitespace-delimited tokens holding at
\* least one alphanumeric character, and 0.0 when there is no such token.
C5_AverageOverAlphanumerics ==
    op = "get_average_word_length" =>
        LET tokens == {i \in TokenStarts(text) :
                          \E k \in DOMAIN TokenAt(text, i) : IsAlnum(TokenAt(text, i)[k])}
            total == Cardinality({k \in 1..Len(text) : IsAlnum(text[k])})
        IN  IF tokens = {} THEN result.num = 0
            ELSE result.num * Cardinality(tokens) = total * result.den

\* C6 as stated: the report's average word length of "cat dog bird" is 3.67.
C6_AverageIs367 ==
    (op = "generate_text_report" /\ text = CatDogBird)
    => result.average_word_length = 367

\* C6 amended: the report's average word length of "cat dog bird", rounded to
\* two decimals, is 3.33.
C6_AverageIs333 ==
    (op = "generate_text_report" /\ text = CatDogBird)
    => result.average_word_length = 333

C6_Witness ==
    /\ op = "generate_text_report"
    /\ text = CatDogBird
    /\ result.words = 3

\* C7: the counts of get_character_frequency(s) sum to
\* get_num_characters(s.lower()), every key is a character of the lowercased
\* text and every count is at least 1.
C7_CharacterFrequencySum ==
    op = "get_character_frequency" =>
        /\ SumCounts(result) = get_num_characters(str_lower(text))
        /\ \A k \in DOMAIN result :
              /\ result[k][1] \in Range(str_lower(text))
              /\ result[k][2] >= 1

C7_Witness ==
    /\ op = "get_character_frequency"
    /\ text = DottedI
    /\ SumCounts(result) = 7
    /\ \E k \in DOMAIN result : result[k] = <<"\t", 1>>

\* C8: on the empty string the four counts are 0, the average word length is
\* 0.0, the word frequencies are an empty sequence, the character frequencies
\* an empty mapping, and the report is all zero with no top words.
C8_EmptyText ==
    text = <<>> =>
        /\ op \in {"get_num_characters", "get_num_words", "get_num_sentences",
                   "get_num_paragraphs"} => result = 0
        /\ op = "get_average_word_length" => result.num = 0
        /\ op \in {"get_word_frequency", "get_character_frequency"} => result = <<>>
        /\ op = "generate_text_report" =>
              result = [characters |-> 0, words |-> 0, sentences |-> 0,
                        paragraphs |-> 0, average_word_length |-> 0,
                        top_words |-> <<>>]

C8_Witness ==
    /\ text = <<>>
    /\ op = "generate_text_report"
    /\ result.paragraphs = 0
    /\ result.top_words = <<>>

\* C9: a run on a readable file prints, between the Character Count header and
\* the END line, one "<char>: <count>" line per character of the lowercased
\* text, by descending count, equal counts in order of first occurrence.
C9_BannerCharacterLines ==
    (/\ op = "main.py"
     /\ Len(arg) = 2
     /\ FileSystem(text)[arg[2]].kind = "regular")
    => LET lowered == str_lower(text)
           out == result.stdout
           n == Cardinality(Range(lowered))
       IN  /\ Len(out) = 7 + n
           /\ out[6] = <<"--------- Character Count -------">>
           /\ out[7 + n] = <<"=============== END ===============">>
           /\ \A k \in 1..n :
                 /\ out[6 + k][1] \in Range(lowered)
                 /\ out[6 + k] = <<out[6 + k][1], ": ", Occurrences(lowered, out[6 + k][1])>>
                 /\ \A j \in 1..(k - 1) :
                       \/ out[6 + j][3] > out[6 + k][3]
                       \/ /\ out[6 + j][3] = out[6 + k][3]
                          /\ FirstIndex(lowered, out[6 + j][1])
                                < FirstIndex(lowered, out[6 + k][1])

\* C10: get_num_sentences(text) is the number of maximal terminator-free
\* stretches of the text that hold a non-whitespace character, counted by the
\* first such character of each stretch; "Hello. World! How are you?" gives 3.
C10_SentenceCount ==
    op = "get_num_sentences" =>
        /\ result = Cardinality(
              {i \in 1..Len(text) :
                  /\ ~IsTerminator(text[i])
                  /\ ~IsSpace(text[i])
                  /\ \A j \in 1..(i - 1) :
                        (\A k \in j..i : ~IsTerminator(text[k])) => IsSpace(text[j])})
        /\ text = HelloWorld => result = 3

C10_Witness ==
    /\ op = "get_num_sentences"
    /\ text = HelloWorld
    /\ result = 3

====
